---- MODULE Spec2Model ----
(***************************************************************************)
(* Model of the manual PDF splitter (src/src/pdf_manual_splitter.py):      *)
(* the split plan kept by ManualSplitDialog (split_points, split_names),   *)
(* its event handlers, the hand-off of the finalized plan by               *)
(* PDFManualSplitterApp.process_file, and split_pdf_file writing the       *)
(* output documents and the JSON summary; and of the log panel of the      *)
(* launcher (src/src/launcher_gui.py), fed by the output reader threads.   *)
(***************************************************************************)
EXTENDS Integers, Sequences, FiniteSets, TLC

(* ------------------------------- bounds -------------------------------- *)

\* Largest page count of a source PDF in the full application model.
MaxPages == 3

\* Largest page count in the plan-only model (toggle / clear / confirm).
MaxPlanPages == 10

\* Largest page count of the source when split_pdf_file is called directly.
MaxCallPages == 2

\* Longest list of tuples handed to split_pdf_file when it is called directly.
MaxCallDocs == 1

\* Launches of a tool in a run of the launcher in which the log is
\* followed.
MaxProcs == 1

\* Launches of a tool in a run of the launcher in which the processes are
\* followed.
MaxTracked == 2

\* Lines of output read from one tool process.
MaxLines == 1

\* Longest list of files loaded into the combiner at once.
MaxFiles == 2

\* Longest all_pages of the combiner whose thumbnails are regenerated.
MaxAllPages == 2

(* ------------------------- strings (Python str) ------------------------ *)

\* The characters str.lower() changes (ASCII letters).
lower_map ==
    [A |-> "a", B |-> "b", C |-> "c", D |-> "d", E |-> "e", F |-> "f",
     G |-> "g", H |-> "h", I |-> "i", J |-> "j", K |-> "k", L |-> "l",
     M |-> "m", N |-> "n", O |-> "o", P |-> "p", Q |-> "q", R |-> "r",
     S |-> "s", T |-> "t", U |-> "u", V |-> "v", W |-> "w", X |-> "x",
     Y |-> "y", Z |-> "z"]

\* str.lower() on one character.
lower_char(c) == IF c \in DOMAIN lower_map THEN lower_map[c] ELSE c

RECURSIVE lower(_)
\* str.lower()
lower(s) == IF s = "" THEN "" ELSE lower_char(Head(s)) \o lower(Tail(s))

\* str.endswith(suffix)
endswith(s, suffix) ==
    /\ Len(s) >= Len(suffix)
    /\ SubSeq(s, Len(s) - Len(suffix) + 1, Len(s)) = suffix

is_space(c) == c = " "

RECURSIVE lstrip(_)
lstrip(s) == IF s # "" /\ is_space(Head(s)) THEN lstrip(Tail(s)) ELSE s

RECURSIVE rstrip(_)
rstrip(s) ==
    IF s # "" /\ is_space(SubSeq(s, Len(s), Len(s)))
    THEN rstrip(SubSeq(s, 1, Len(s) - 1))
    ELSE s

\* str.strip()
strip(s) == rstrip(lstrip(s))

(* ------------------------- lists (Python list) ------------------------- *)

\* x in lst
contains(lst, x) == \E k \in 1..Len(lst) : lst[k] = x

\* lst.remove(x): removes the first occurrence of x
list_remove(lst, x) ==
    LET k == CHOOSE k \in 1..Len(lst) :
                 lst[k] = x /\ \A j \in 1..(k - 1) : lst[j] # x
    IN  SubSeq(lst, 1, k - 1) \o SubSeq(lst, k + 1, Len(lst))

RECURSIVE insert_sorted(_, _)
insert_sorted(lst, x) ==
    IF lst = << >> THEN << x >>
    ELSE IF x <= Head(lst) THEN << x >> \o lst
    ELSE << Head(lst) >> \o insert_sorted(Tail(lst), x)

RECURSIVE list_sort(_)
\* lst.sort()
list_sort(lst) ==
    IF lst = << >> THEN << >>
    ELSE insert_sorted(list_sort(Tail(lst)), Head(lst))

\* list(zip(a, b)): pairs up to the shorter length
zip(a, b) ==
    LET n == IF Len(a) <= Len(b) THEN Len(a) ELSE Len(b)
    IN  [k \in 1..n |-> << a[k], b[k] >>]

\* Python None
None == [none |-> TRUE]

(* ------------------------------- state --------------------------------- *)

VARIABLES
    total_pages,    \* page count of the source PDF (get_pdf_page_count)
    split_points,   \* ManualSplitDialog.split_points
    split_names,    \* ManualSplitDialog.split_names: index -> stored name
    split_display,  \* documents listed in the preview text widget
    result,         \* ManualSplitDialog.result
    window,         \* the dialog's root window: "none", "open", "destroyed"
    prompt,         \* edit_names: index of the pending askstring, -1 if none
    pc,             \* position of process_file / split_pdf_file
    splits,         \* split_pdf_file argument: (start, end, name) tuples
    output_folder,  \* split_pdf_file argument
    idx,            \* split_pdf_file: loop iterations started
    files,          \* the disk: path -> what was written there
    documents_meta, \* split_pdf_file: entries of the documents written
    error,          \* the exception caught by split_pdf_file, if any
    success,        \* << return value >> of split_pdf_file, << >> before
    report,         \* what process_file tells the user at the end
    last_op,        \* the dialog handler (or prompt) that ran last
    before,         \* the plan as it was when that handler started
    popup,          \* the full view popup: << >>, or << its state >>
    procs,          \* launcher: the launches made, by number, each with
                    \* its process and reader thread unless Popen failed
    running_tools,  \* launcher: running_tools, the dict's items in order
    output_threads, \* launcher: output_threads, tool name -> reader thread
    closing,        \* launcher: the handler waiting in root.update()
    pdf_files,      \* combiner: pdf_files
    all_pages,      \* combiner: all_pages, the page_data dicts
    selected_pages, \* combiner: selected_pages, as positions in all_pages
    pages_by_file,  \* combiner: pages_by_file, as positions in all_pages
    current_preview_size, \* combiner: current_preview_size
    pdf_writer,     \* combiner: the pages of save_combined_pdf's writer
    log_queue,      \* launcher: log_queue, (text, tool_name, is_error)
    log_text        \* launcher: the lines of the log widget

dialog_vars == << total_pages, split_points, split_names, split_display,
                 result, window, prompt >>

run_vars == << splits, output_folder, idx, files, documents_meta, error,
              success, report >>

history_vars == << last_op, before >>

launcher_vars == << procs, running_tools, output_threads, closing,
                    log_queue, log_text >>

combiner_vars == << pdf_files, all_pages, selected_pages, pages_by_file,
                    current_preview_size, pdf_writer >>

\* What the handlers of the splitter dialog and of split_pdf_file leave
\* alone.
other_vars == << popup, launcher_vars, combiner_vars >>

vars == << total_pages, split_points, split_names, split_display, result,
           window, prompt, pc, splits, output_folder, idx, files,
           documents_meta, error, success, report, last_op, before, popup,
           procs, running_tools, output_threads, closing, log_queue,
           log_text, pdf_files, all_pages, selected_pages, pages_by_file,
           current_preview_size, pdf_writer >>

splitter_vars == << total_pages, split_points, split_names, split_display,
                   result, window, prompt, pc, splits, output_folder, idx,
                   files, documents_meta, error, success, report, last_op,
                   before, popup >>

(* --------------------------- program constants ------------------------- *)

DEFAULT_OUTPUT_FOLDER == "_splitted"

\* Path(self.pdf_path).stem of the source document
pdf_basename == "doc"

\* PDFManualSplitterApp.output_folder
app_output_folder == DEFAULT_OUTPUT_FOLDER

\* The source document chosen by the user.
pdf_path == "/docs/doc.pdf"

\* os.path.dirname(pdf_path)
pdf_dir == "/docs"

\* What the user may leave in the output folder entry of the dialog.
FolderEntries == {"", "/out"}

\* What simpledialog.askstring may return for one prompt of edit_names:
\* None when the prompt is cancelled, otherwise the text typed.
Answers ==
    { [none |-> TRUE, text |-> ""] } \cup
    { [none |-> FALSE, text |-> t] : t \in {"  ", " Intro ", "Rest.pdf", "A.PDF"} }

(* ------------------------- the split plan (pure) ----------------------- *)

\* toggle_split_point without its final sort.
toggled_points_unsorted(points, page) ==
    LET split_after_page == page + 1
    IN  IF contains(points, split_after_page)
        THEN list_remove(points, split_after_page)
        ELSE Append(points, split_after_page)

\* toggle_split_point that never removes a split point.
toggled_points_add_only(points, page) ==
    LET split_after_page == page + 1
    IN  IF contains(points, split_after_page)
        THEN points
        ELSE list_sort(Append(points, split_after_page))

\* The body of toggle_split_point on the list: toggle page + 1, then sort.
toggled_points(points, page) ==
    LET split_after_page == page + 1
        toggled == IF contains(points, split_after_page)
                   THEN list_remove(points, split_after_page)
                   ELSE Append(points, split_after_page)
    IN  list_sort(toggled)

\* The zip with total_pages in place of total_pages + 1.
split_ranges_short(points, pages) ==
    zip(points, SubSeq(points, 2, Len(points)) \o << pages >>)

\* list(zip(split_points, split_points[1:] + [total_pages + 1]))
split_ranges(points, pages) ==
    zip(points, SubSeq(points, 2, Len(points)) \o << pages + 1 >>)

\* The ranges without end_page = end - 1.
derive_ranges_end_exclusive(points, pages) ==
    LET ranges == split_ranges(points, pages)
    IN  [k \in 1..Len(ranges) |-> << ranges[k][1], ranges[k][2] >>]

\* The (start, end_page) pairs the handlers derive from split_ranges.
derive_ranges(points, pages) ==
    LET ranges == split_ranges(points, pages)
    IN  [k \in 1..Len(ranges) |-> << ranges[k][1], ranges[k][2] - 1 >>]

\* f"{pdf_basename}_Part{n}.pdf"
default_name(n) == pdf_basename \o "_Part" \o ToString(n) \o ".pdf"

\* The name left as it is.
ensure_pdf_suffix_never(name) == name

\* if not name.lower().endswith('.pdf'): name += '.pdf'
ensure_pdf_suffix(name) ==
    IF ~ endswith(lower(name), ".pdf") THEN name \o ".pdf" ELSE name

\* dict.get(key, default)
dict_get(d, key, default) == IF key \in DOMAIN d THEN d[key] ELSE default

\* d[key] = value
dict_set(d, key, value) ==
    [k \in DOMAIN d \cup {key} |-> IF k = key THEN value ELSE d[k]]

\* do_split looking the name up under the one-based document number.
resolve_name_one_based(names, i) ==
    ensure_pdf_suffix(dict_get(names, i + 1, default_name(i + 1)))

\* The filename do_split gives the document with zero-based index i.
resolve_name(names, i) ==
    ensure_pdf_suffix(dict_get(names, i, default_name(i + 1)))

\* The list of (start, end_page, name) tuples built by do_split.
finalized_splits(points, names, pages) ==
    LET ranges == derive_ranges(points, pages)
    IN  [k \in 1..Len(ranges) |->
            << ranges[k][1], ranges[k][2], resolve_name(names, k - 1) >>]

\* The documents update_split_display lists in the preview widget.
update_split_display(points, names, pages) ==
    IF Len(points) <= 1
    THEN << [document |-> 1, start |-> 1, end_page |-> pages,
             name |-> "(entire PDF)"] >>
    ELSE LET ranges == derive_ranges(points, pages)
         IN  [k \in 1..Len(ranges) |->
                 [document |-> k, start |-> ranges[k][1],
                  end_page |-> ranges[k][2],
                  name |-> ensure_pdf_suffix(
                               dict_get(names, k, default_name(k)))]]

\* A prompt whose answer is stored under the one-based document number.
store_answer_one_based(names, i, answer) ==
    IF answer.none THEN names
    ELSE IF strip(answer.text) # ""
         THEN dict_set(names, i + 1, strip(answer.text))
         ELSE dict_set(names, i + 1, default_name(i + 1))

\* One prompt of edit_names for the document with zero-based index i.
store_answer(names, i, answer) ==
    IF answer.none THEN names
    ELSE IF strip(answer.text) # ""
         THEN dict_set(names, i, strip(answer.text))
         ELSE dict_set(names, i, default_name(i + 1))

plan == [split_points |-> split_points, split_names |-> split_names]

\* The record of a handler run: which handler, on which page, and whether
\* the handler that ran before it was the same one on the same page.
handler(op, page) ==
    [op |-> op, page |-> page,
     again |-> last_op.op = op /\ last_op.page = page]

(* ----------------------- ManualSplitDialog handlers -------------------- *)

\* The dialog is shown and no modal prompt of edit_names is up.
dialog_shown == pc = "dialog" /\ window = "open" /\ prompt = -1

\* The dialog accepts an event: it is shown and neither a modal prompt nor
\* the full view popup (which holds the grab) is up.
dialog_open == dialog_shown /\ popup = << >>

\* ManualSplitDialog.__init__ followed by create_dialog
new_dialog(pages) ==
    /\ total_pages' = pages
    /\ split_points' = << 1 >>
    /\ split_names' = << >>
    /\ result' = None
    /\ window' = IF pages < 1 THEN "none" ELSE "open"
    /\ prompt' = -1
    /\ split_display' = IF pages < 1 THEN << >>
                        ELSE update_split_display(<< 1 >>, << >>, pages)

\* toggle_split_point that also drops the custom names.
toggle_split_point_drops_names(page) ==
    /\ dialog_shown
    /\ split_points' = toggled_points(split_points, page)
    /\ split_names' = << >>
    /\ split_display' = update_split_display(split_points', split_names',
                                             total_pages)
    /\ last_op' = handler("toggle", page)
    /\ before' = plan
    /\ UNCHANGED << total_pages, result, window, prompt, pc >>
    /\ UNCHANGED run_vars
    /\ UNCHANGED other_vars

\* Split button of page `page` (thumbnail grid or full view popup).
toggle_split_point(page) ==
    /\ dialog_shown
    /\ split_points' = toggled_points(split_points, page)
    /\ split_display' = update_split_display(split_points', split_names,
                                             total_pages)
    /\ last_op' = handler("toggle", page)
    /\ before' = plan
    /\ UNCHANGED << total_pages, split_names, result, window, prompt, pc >>
    /\ UNCHANGED run_vars
    /\ UNCHANGED other_vars

\* clear_all_splits that keeps the custom names.
clear_all_splits_keeps_names ==
    /\ dialog_open
    /\ split_points' = << 1 >>
    /\ split_display' = update_split_display(split_points', split_names,
                                             total_pages)
    /\ last_op' = handler("clear", 0)
    /\ before' = plan
    /\ UNCHANGED << total_pages, split_names, result, window, prompt, pc >>
    /\ UNCHANGED run_vars
    /\ UNCHANGED other_vars

clear_all_splits ==
    /\ dialog_open
    /\ split_points' = << 1 >>
    /\ split_names' = << >>
    /\ split_display' = update_split_display(split_points', split_names',
                                             total_pages)
    /\ last_op' = handler("clear", 0)
    /\ before' = plan
    /\ UNCHANGED << total_pages, result, window, prompt, pc >>
    /\ UNCHANGED run_vars
    /\ UNCHANGED other_vars

\* edit_names up to its first askstring (a modal prompt).
edit_names ==
    /\ dialog_open
    /\ prompt' = IF Len(split_points) <= 1 THEN -1 ELSE 0
    /\ last_op' = handler("edit_names", 0)
    /\ before' = plan
    /\ UNCHANGED << total_pages, split_points, split_names, split_display,
                    result, window, pc >>
    /\ UNCHANGED run_vars
    /\ UNCHANGED other_vars

\* The pending askstring of edit_names returns; after the last one the
\* preview is refreshed and the handler ends.
edit_names_prompt ==
    /\ pc = "dialog" /\ window = "open" /\ prompt >= 0
    /\ LET n == Len(split_ranges(split_points, total_pages))
       IN  \E answer \in Answers :
             /\ split_names' = store_answer(split_names, prompt, answer)
             /\ IF prompt + 1 < n
                THEN /\ prompt' = prompt + 1
                     /\ UNCHANGED split_display
                ELSE /\ prompt' = -1
                     /\ split_display' = update_split_display(
                                             split_points, split_names',
                                             total_pages)
    /\ last_op' = handler("prompt", prompt)
    /\ before' = plan
    /\ UNCHANGED << total_pages, split_points, result, window, pc >>
    /\ UNCHANGED run_vars
    /\ UNCHANGED other_vars

\* do_split that hands over the plan even when no split is defined.
do_split_always_splits ==
    /\ dialog_open
    /\ \E entry \in FolderEntries :
         result' = [split |-> TRUE,
                    splits |-> finalized_splits(split_points,
                                                split_names, total_pages),
                    output_folder |-> IF entry # "" THEN entry
                                      ELSE app_output_folder]
    /\ window' = "destroyed"
    /\ last_op' = handler("do_split", 0)
    /\ before' = plan
    /\ UNCHANGED << total_pages, split_points, split_names, split_display,
                    prompt, pc >>
    /\ UNCHANGED run_vars
    /\ UNCHANGED other_vars

\* do_split that sets the result and leaves the window up.
do_split_keeps_window ==
    /\ dialog_open
    /\ IF Len(split_points) <= 1
       THEN result' = [split |-> FALSE,
                       message |-> "No splits defined. PDF remains unchanged."]
       ELSE \E entry \in FolderEntries :
              result' = [split |-> TRUE,
                         splits |-> finalized_splits(split_points,
                                                     split_names, total_pages),
                         output_folder |-> IF entry # "" THEN entry
                                           ELSE app_output_folder]
    /\ last_op' = handler("do_split", 0)
    /\ before' = plan
    /\ UNCHANGED << total_pages, split_points, split_names, split_display,
                    window, prompt, pc >>
    /\ UNCHANGED run_vars
    /\ UNCHANGED other_vars

\* The Split button or <Return>: set the result and destroy the window.
do_split ==
    /\ dialog_open
    /\ IF Len(split_points) <= 1
       THEN result' = [split |-> FALSE,
                       message |-> "No splits defined. PDF remains unchanged."]
       ELSE \E entry \in FolderEntries :
              result' = [split |-> TRUE,
                         splits |-> finalized_splits(split_points,
                                                     split_names, total_pages),
                         output_folder |-> IF entry # "" THEN entry
                                           ELSE app_output_folder]
    /\ window' = "destroyed"
    /\ last_op' = handler("do_split", 0)
    /\ before' = plan
    /\ UNCHANGED << total_pages, split_points, split_names, split_display,
                    prompt, pc >>
    /\ UNCHANGED run_vars
    /\ UNCHANGED other_vars

cancel_dialog ==
    /\ dialog_open
    /\ result' = [split |-> FALSE, message |-> "Cancelled by user."]
    /\ window' = "destroyed"
    /\ last_op' = handler("cancel", 0)
    /\ before' = plan
    /\ UNCHANGED << total_pages, split_points, split_names, split_display,
                    prompt, pc >>
    /\ UNCHANGED run_vars
    /\ UNCHANGED other_vars

\* The dialog window is closed through the window manager: run() returns
\* the result as it is.
close_window ==
    /\ dialog_open
    /\ window' = "destroyed"
    /\ last_op' = handler("close", 0)
    /\ before' = plan
    /\ UNCHANGED << total_pages, split_points, split_names, split_display,
                    result, prompt, pc >>
    /\ UNCHANGED run_vars
    /\ UNCHANGED other_vars

\* create_thumbnails: the pages whose card has a split button.
split_buttons(pages) == { page \in 1..pages : page < pages }

\* A split button of the thumbnail grid is pressed.
toggle_any ==
    /\ popup = << >>
    /\ \E page \in split_buttons(total_pages) : toggle_split_point(page)

(* ---------------------------- full view popup -------------------------- *)

\* get_pdf_page_count as show_full_size_image calls it: the page count, or
\* 0 when the file cannot be read this time.
page_counts(pages) == {pages, 0}

\* A thumbnail is clicked: show_full_size_image opens the popup on that
\* page, with available_pages = 1..count.
show_full_size_image(page_num) ==
    /\ dialog_open
    /\ \E count \in page_counts(total_pages) :
         popup' = << [current_page |-> page_num, available |-> count] >>
    /\ UNCHANGED << total_pages, split_points, split_names, split_display,
                    result, window, prompt, pc >>
    /\ UNCHANGED run_vars
    /\ UNCHANGED history_vars
    /\ UNCHANGED launcher_vars
    /\ UNCHANGED combiner_vars

show_full_size_image_any ==
    \E page_num \in 1..total_pages : show_full_size_image(page_num)

\* The page the popup shows has a page before it in available_pages.
has_previous == popup[1].available > 0 /\ popup[1].current_page > 1

\* The page the popup shows has a page after it in available_pages.
has_next == popup[1].available > 0
            /\ popup[1].current_page < popup[1].available

\* go_previous and go_next (buttons, <Left>, <Right>), when the image of
\* the new page loads.
go_to(step) ==
    /\ dialog_shown
    /\ popup # << >>
    /\ IF step = -1 THEN has_previous ELSE has_next
    /\ popup' = << [popup[1] EXCEPT !.current_page = @ + step] >>
    /\ UNCHANGED << total_pages, split_points, split_names, split_display,
                    result, window, prompt, pc >>
    /\ UNCHANGED run_vars
    /\ UNCHANGED history_vars
    /\ UNCHANGED launcher_vars
    /\ UNCHANGED combiner_vars

go_previous == go_to(-1)

go_next == go_to(1)

\* The split action of the popup calling the callback on every page.
split_after_current_page_unguarded ==
    /\ popup # << >>
    /\ toggle_split_point(popup[1].current_page)

\* The split action of the popup (button, S, Space): the callback is
\* called when the page shown is below len(available_pages).
split_after_current_page ==
    /\ popup # << >>
    /\ popup[1].current_page < popup[1].available
    /\ toggle_split_point(popup[1].current_page)

\* The popup is closed (Close button, <Escape>).
popup_destroy ==
    /\ dialog_shown
    /\ popup # << >>
    /\ popup' = << >>
    /\ UNCHANGED << total_pages, split_points, split_names, split_display,
                    result, window, prompt, pc >>
    /\ UNCHANGED run_vars
    /\ UNCHANGED history_vars
    /\ UNCHANGED launcher_vars
    /\ UNCHANGED combiner_vars

(* ------------------------------ split_pdf_file ------------------------- *)

\* os.path.isabs(path)
isabs(path) == path # "" /\ Head(path) = "/"

\* Path(directory) / name
path_join(directory, name) == directory \o "/" \o name

\* An output directory always taken relative to the source's directory.
output_dir_joins_absolute(folder) ==
    path_join(pdf_dir, IF folder # "" THEN folder ELSE DEFAULT_OUTPUT_FOLDER)

\* The output directory split_pdf_file chooses.
output_dir(folder) ==
    IF folder # "" /\ isabs(folder)
    THEN folder
    ELSE path_join(pdf_dir, IF folder # "" THEN folder
                            ELSE DEFAULT_OUTPUT_FOLDER)

\* list(range(a, b))
range(a, b) == [k \in 1..(IF b > a THEN b - a ELSE 0) |-> a + k - 1]

min(a, b) == IF a <= b THEN a ELSE b

\* The pages of a loop that starts at index start instead of start - 1.
writer_pages_from_start(start, end, pages) ==
    LET page_nums == SelectSeq(range(start, min(end, pages)),
                               LAMBDA page_num : 0 <= page_num /\ page_num < pages)
    IN  [k \in 1..Len(page_nums) |-> page_nums[k] + 1]

\* The 1-based source pages the writer receives for the tuple (start, end).
writer_pages(start, end, pages) ==
    LET page_nums == SelectSeq(range(start - 1, min(end, pages)),
                               LAMBDA page_num : 0 <= page_num /\ page_num < pages)
    IN  [k \in 1..Len(page_nums) |-> page_nums[k] + 1]

\* The filename split_pdf_file uses for document number n.
output_name(name, n) ==
    ensure_pdf_suffix(IF name = "" THEN "Document_" \o ToString(n) \o ".pdf"
                      ELSE name)

summary_path(folder) ==
    path_join(output_dir(folder), "doc_split_summary.json")

\* An exception handler inside the loop: log and go on with the next tuple.
split_failed_continues(n, what) ==
    /\ error' = << [document |-> n, at |-> what] >>
    /\ success' = << FALSE >>
    /\ pc' = IF what \in {"open_output", "write_output"} THEN pc
             ELSE "split_returned"

\* The exception handler of split_pdf_file: log, report, return False.
split_failed(n, what) ==
    /\ error' = << [document |-> n, at |-> what] >>
    /\ success' = << FALSE >>
    /\ pc' = "split_returned"

\* split_pdf_file opens the source and creates the output directory.
split_pdf_file_open ==
    /\ pc = "split_open"
    /\ \/ /\ pc' = "split_loop"
          /\ idx' = 0
          /\ documents_meta' = << >>
          /\ UNCHANGED << error, success >>
       \/ /\ split_failed(0, "open")
          /\ UNCHANGED << idx, documents_meta >>
    /\ UNCHANGED << splits, output_folder, files, report >>
    /\ UNCHANGED dialog_vars
    /\ UNCHANGED history_vars
    /\ UNCHANGED other_vars

\* One iteration of the loop over the tuples: build the document, open
\* the output file, write it, record it.
split_pdf_file_document ==
    /\ pc = "split_loop"
    /\ idx < Len(splits)
    /\ idx' = idx + 1
    /\ LET start == splits[idx'][1]
           end == splits[idx'][2]
           name == output_name(splits[idx'][3], idx')
           out_path == path_join(output_dir(output_folder), name)
       IN  \/ /\ files' = dict_set(files, out_path,
                              [kind |-> "pdf", complete |-> TRUE,
                               pages |-> writer_pages(start, end, total_pages)])
              /\ documents_meta' = Append(documents_meta,
                              [document_number |-> idx', start_page |-> start,
                               end_page |-> end, filename |-> name])
              /\ UNCHANGED << pc, error, success >>
           \/ /\ split_failed(idx', "open_output")
              /\ UNCHANGED << files, documents_meta >>
           \/ /\ split_failed(idx', "write_output")
              /\ files' = dict_set(files, out_path,
                              [kind |-> "pdf", complete |-> FALSE,
                               pages |-> << >>])
              /\ UNCHANGED documents_meta
    /\ UNCHANGED << splits, output_folder, report >>
    /\ UNCHANGED dialog_vars
    /\ UNCHANGED history_vars
    /\ UNCHANGED other_vars

\* A summary that may be written before the loop has reached the last tuple.
split_pdf_file_summary_early ==
    /\ pc = "split_loop"
    /\ idx <= Len(splits)
    /\ \/ /\ files' = dict_set(files, summary_path(output_folder),
                          [kind |-> "json", complete |-> TRUE,
                           original_file |-> "doc.pdf",
                           total_pages |-> total_pages,
                           documents |-> documents_meta,
                           output_folder |-> output_dir(output_folder)])
          /\ success' = << TRUE >>
          /\ pc' = "split_returned"
          /\ UNCHANGED error
       \/ /\ split_failed(idx + 1, "open_summary")
          /\ UNCHANGED files
       \/ /\ split_failed(idx + 1, "write_summary")
          /\ files' = dict_set(files, summary_path(output_folder),
                          [kind |-> "json", complete |-> FALSE])
    /\ UNCHANGED << splits, output_folder, idx, documents_meta, report >>
    /\ UNCHANGED dialog_vars
    /\ UNCHANGED history_vars
    /\ UNCHANGED other_vars

\* After the loop: write the JSON summary and return True.
split_pdf_file_summary ==
    /\ pc = "split_loop"
    /\ idx = Len(splits)
    /\ \/ /\ files' = dict_set(files, summary_path(output_folder),
                          [kind |-> "json", complete |-> TRUE,
                           original_file |-> "doc.pdf",
                           total_pages |-> total_pages,
                           documents |-> documents_meta,
                           output_folder |-> output_dir(output_folder)])
          /\ success' = << TRUE >>
          /\ pc' = "split_returned"
          /\ UNCHANGED error
       \/ /\ split_failed(idx + 1, "open_summary")
          /\ UNCHANGED files
       \/ /\ split_failed(idx + 1, "write_summary")
          /\ files' = dict_set(files, summary_path(output_folder),
                          [kind |-> "json", complete |-> FALSE])
    /\ UNCHANGED << splits, output_folder, idx, documents_meta, report >>
    /\ UNCHANGED dialog_vars
    /\ UNCHANGED history_vars
    /\ UNCHANGED other_vars

(* ------------------- PDFManualSplitterApp.process_file ----------------- *)

\* process_file that opens the dialog whatever the page count.
process_file_no_page_check ==
    /\ pc = "idle"
    /\ new_dialog(total_pages)
    /\ pc' = "dialog"
    /\ UNCHANGED report
    /\ UNCHANGED << splits, output_folder, idx, files, documents_meta,
                    error, success >>
    /\ UNCHANGED history_vars
    /\ UNCHANGED other_vars

\* process_file up to dialog.run(): page count check, then the dialog.
process_file ==
    /\ pc = "idle"
    /\ IF total_pages < 2
       THEN /\ report' = [outcome |-> "skipped",
                          message |-> "PDF has only " \o ToString(total_pages)
                                      \o " page(s) - no splitting needed",
                          documents |-> << >>]
            /\ pc' = "returned"
            /\ UNCHANGED dialog_vars
       ELSE /\ new_dialog(total_pages)
            /\ pc' = "dialog"
            /\ UNCHANGED report
    /\ UNCHANGED << splits, output_folder, idx, files, documents_meta,
                    error, success >>
    /\ UNCHANGED history_vars
    /\ UNCHANGED other_vars

\* process_file that calls split_pdf_file whatever the dialog returned.
process_file_result_always_splits ==
    /\ pc = "dialog"
    /\ window # "open"
    /\ IF window = "none"
       THEN /\ pc' = "crashed"
            /\ UNCHANGED << report, splits, output_folder >>
       ELSE /\ splits' = IF result # None /\ result.split
                         THEN result.splits ELSE << >>
            /\ output_folder' = IF result # None /\ result.split
                                THEN result.output_folder
                                ELSE app_output_folder
            /\ pc' = "split_open"
            /\ UNCHANGED report
    /\ UNCHANGED << idx, files, documents_meta, error, success >>
    /\ UNCHANGED dialog_vars
    /\ UNCHANGED history_vars
    /\ UNCHANGED other_vars

\* dialog.run() has returned: stop, or call split_pdf_file with the plan.
\* On a dialog whose window was never created run() reads the attribute
\* _is_toplevel, which create_dialog has not set: the AttributeError leaves
\* process_file.
process_file_result ==
    /\ pc = "dialog"
    /\ window # "open"
    /\ IF window = "none"
       THEN /\ pc' = "crashed"
            /\ UNCHANGED << report, splits, output_folder >>
       ELSE IF result = None
       THEN /\ report' = [outcome |-> "not_split", message |-> "Dialog closed",
                          documents |-> << >>]
            /\ pc' = "returned"
            /\ UNCHANGED << splits, output_folder >>
       ELSE IF ~ result.split
       THEN /\ report' = [outcome |-> "not_split", message |-> result.message,
                          documents |-> << >>]
            /\ pc' = "returned"
            /\ UNCHANGED << splits, output_folder >>
       ELSE /\ splits' = result.splits
            /\ output_folder' = result.output_folder
            /\ pc' = "split_open"
            /\ UNCHANGED report
    /\ UNCHANGED << idx, files, documents_meta, error, success >>
    /\ UNCHANGED dialog_vars
    /\ UNCHANGED history_vars
    /\ UNCHANGED other_vars

\* process_file reporting the number of documents written in either case.
process_file_done_counts ==
    /\ pc = "split_returned"
    /\ result # None
    /\ report' = [outcome |-> IF success = << TRUE >> THEN "success" ELSE "error",
                  message |-> ToString(Len(documents_meta)) \o " of "
                              \o ToString(Len(splits)) \o " documents written",
                  documents |-> << Len(documents_meta) >>]
    /\ pc' = "returned"
    /\ UNCHANGED << splits, output_folder, idx, files, documents_meta,
                    error, success >>
    /\ UNCHANGED dialog_vars
    /\ UNCHANGED history_vars
    /\ UNCHANGED other_vars

\* split_pdf_file has returned to process_file: tell the user the outcome.
process_file_done ==
    /\ pc = "split_returned"
    /\ result # None
    /\ report' = IF success = << TRUE >>
                 THEN [outcome |-> "success",
                       message |-> "PDF split into " \o ToString(Len(splits))
                                   \o " documents!",
                       documents |-> << Len(splits) >>]
                 ELSE [outcome |-> "error", message |-> "Error splitting PDF",
                       documents |-> << >>]
    /\ pc' = "returned"
    /\ UNCHANGED << splits, output_folder, idx, files, documents_meta,
                    error, success >>
    /\ UNCHANGED dialog_vars
    /\ UNCHANGED history_vars
    /\ UNCHANGED other_vars

\* root.quit() has been called on the dialog window. Misc.quit() ends the
\* mainloop of the whole Tcl interpreter, not that of one window: the nested
\* wait_window of run() goes on, and the mainloop of PDFManualSplitterApp
\* ends as soon as control returns to it. do_split and cancel_dialog are the
\* callers of quit(), and they are the handlers that set result.
quitMainLoop == result # None

\* process_file has returned to the mainloop and the user chooses the next
\* source PDF (select_file, or a file dropped on the window). The dialog
\* and the locals of the last run are gone; the next source lies in a
\* directory of its own, so nothing has been written there yet.
select_file ==
    /\ pc = "returned"
    /\ ~ quitMainLoop
    /\ total_pages' \in 0..MaxPages
    /\ split_points' = << 1 >>
    /\ split_names' = << >>
    /\ split_display' = << >>
    /\ result' = None
    /\ window' = "none"
    /\ prompt' = -1
    /\ pc' = "idle"
    /\ splits' = << >>
    /\ output_folder' = ""
    /\ idx' = 0
    /\ files' = << >>
    /\ documents_meta' = << >>
    /\ error' = << >>
    /\ success' = << >>
    /\ report' = None
    /\ last_op' = [op |-> "init", page |-> 0, again |-> FALSE]
    /\ before' = [split_points |-> << 1 >>, split_names |-> << >>]
    /\ UNCHANGED other_vars

\* process_file has returned to a mainloop that was told to quit:
\* PDFManualSplitterApp.run() returns and main() ends.
mainloop_exit ==
    /\ pc = "returned"
    /\ quitMainLoop
    /\ pc' = "closed"
    /\ UNCHANGED << splits, output_folder, idx, files, documents_meta,
                    error, success, report >>
    /\ UNCHANGED dialog_vars
    /\ UNCHANGED history_vars
    /\ UNCHANGED other_vars

(* ------------------------ launcher: the log panel ---------------------- *)

\* The tools of the toolbar (launcher["name"]).
Tools == {"pdf_ocr", "pdf_combiner"}

\* What process.stdout.readline() may return before the end of the output:
\* a line of text, or a line of white space only.
OutputLines == {"ok ", " "}

\* The launcher accepts events and its threads run.
launcher_running == pc = "launcher"

\* d[key] = value on a dict whose order matters: a new key goes to the
\* end, a key that is there keeps its place.
items_set(items, key, value) ==
    IF \E k \in 1..Len(items) : items[k].key = key
    THEN [k \in 1..Len(items) |->
             IF items[k].key = key THEN [key |-> key, value |-> value]
             ELSE items[k]]
    ELSE Append(items, [key |-> key, value |-> value])

\* process.poll() is None
still_running(process) == process.started /\ process.returncode = << >>

\* One item of the log queue.
log_item(text, tool_name, is_error) ==
    [text |-> text, tool_name |-> tool_name, is_error |-> is_error]

\* append_log: the queue after log_queue.put((text, tool_name, is_error))
append_log(queue, text, tool_name, is_error) ==
    Append(queue, log_item(text, tool_name, is_error))

\* _append_log_direct: the widget with one more line (the time stamp is
\* left out).
append_log_direct(lines, item) ==
    Append(lines, [tool_name |-> item.tool_name, text |-> item.text,
                   tag |-> IF item.is_error THEN "error" ELSE "none"])

RECURSIVE append_all(_, _)
\* The loop of process_log_queue over the items found in the queue.
append_all(lines, queue) ==
    IF queue = << >> THEN lines
    ELSE append_all(append_log_direct(lines, Head(queue)), Tail(queue))

\* The tool button: log the launch, start the process, track it and start
\* its output reader thread; or log that the start has failed. When the
\* tool is already running the user is asked first, and the answer No
\* returns without any change.
launch_tool(tool, limit) ==
    /\ launcher_running
    /\ Len(procs) < limit
    /\ LET announced == append_log(append_log(log_queue,
                            "==================================================",
                            tool, FALSE),
                            "Launching " \o tool \o "...", tool, FALSE)
           process == Len(procs) + 1
       IN  \/ /\ log_queue' = append_log(announced, "Started: " \o tool,
                                         tool, FALSE)
              /\ procs' = Append(procs, [tool |-> tool, started |-> TRUE,
                                         returncode |-> << >>, lines |-> 0,
                                         reader |-> "reading",
                                         signals |-> << >>])
              /\ running_tools' = items_set(running_tools, tool, process)
              /\ output_threads' = dict_set(output_threads, tool, process)
           \/ /\ log_queue' = append_log(announced, "Failed to launch: error",
                                         tool, TRUE)
              /\ procs' = Append(procs, [tool |-> tool, started |-> FALSE,
                                         returncode |-> << >>, lines |-> 0,
                                         reader |-> "none",
                                         signals |-> << >>])
              /\ UNCHANGED << running_tools, output_threads >>
    /\ UNCHANGED log_text
    /\ UNCHANGED closing
    /\ UNCHANGED splitter_vars
    /\ UNCHANGED combiner_vars

\* A tool process ends with some return code.
process_exits(process) ==
    /\ launcher_running
    /\ still_running(procs[process])
    /\ \E code \in {0, 1} :
         procs' = [procs EXCEPT ![process].returncode = << code >>]
    /\ UNCHANGED << running_tools, output_threads, log_queue, log_text >>
    /\ UNCHANGED closing
    /\ UNCHANGED splitter_vars
    /\ UNCHANGED combiner_vars

\* A reader thread that writes the line into the log widget itself.
read_line_direct(process) ==
    /\ launcher_running
    /\ procs[process].reader = "reading"
    /\ procs[process].lines < MaxLines
    /\ \E line \in OutputLines :
         log_text' = IF rstrip(line) # ""
                     THEN append_log_direct(log_text,
                              log_item(rstrip(line), procs[process].tool, FALSE))
                     ELSE log_text
    /\ procs' = [procs EXCEPT ![process].lines = @ + 1]
    /\ UNCHANGED << running_tools, output_threads, log_queue >>
    /\ UNCHANGED closing
    /\ UNCHANGED splitter_vars
    /\ UNCHANGED combiner_vars

\* _read_process_output, one turn of the loop: readline() returns a line,
\* which goes to the log unless it is blank.
read_line(process) ==
    /\ launcher_running
    /\ procs[process].reader = "reading"
    /\ procs[process].lines < MaxLines
    /\ \E line \in OutputLines :
         log_queue' = IF rstrip(line) # ""
                      THEN append_log(log_queue, rstrip(line),
                                      procs[process].tool, FALSE)
                      ELSE log_queue
    /\ procs' = [procs EXCEPT ![process].lines = @ + 1]
    /\ UNCHANGED << running_tools, output_threads, log_text >>
    /\ UNCHANGED closing
    /\ UNCHANGED splitter_vars
    /\ UNCHANGED combiner_vars

\* _read_process_output: the output has ended and the process is gone; the
\* thread logs the return code and ends.
read_end(process) ==
    /\ launcher_running
    /\ procs[process].reader = "reading"
    /\ ~ still_running(procs[process])
    /\ LET code == procs[process].returncode[1]
       IN  log_queue' = append_log(log_queue,
                            "Process exited with code: " \o ToString(code),
                            procs[process].tool, code # 0)
    /\ procs' = [procs EXCEPT ![process].reader = "done"]
    /\ UNCHANGED << running_tools, output_threads, log_text >>
    /\ UNCHANGED closing
    /\ UNCHANGED splitter_vars
    /\ UNCHANGED combiner_vars

\* _read_process_output: reading raises; the thread logs that and ends.
read_error(process) ==
    /\ launcher_running
    /\ procs[process].reader = "reading"
    /\ log_queue' = append_log(log_queue, "Error reading output: error",
                               procs[process].tool, TRUE)
    /\ procs' = [procs EXCEPT ![process].reader = "done"]
    /\ UNCHANGED << running_tools, output_threads, log_text >>
    /\ UNCHANGED closing
    /\ UNCHANGED splitter_vars
    /\ UNCHANGED combiner_vars

\* The main thread's timer: move every queued item into the log widget and
\* schedule the next run.
process_log_queue ==
    /\ launcher_running
    /\ log_text' = append_all(log_text, log_queue)
    /\ log_queue' = << >>
    /\ UNCHANGED << procs, running_tools, output_threads >>
    /\ UNCHANGED closing
    /\ UNCHANGED splitter_vars
    /\ UNCHANGED combiner_vars

\* The Clear button of the log panel.
clear_log ==
    /\ launcher_running
    /\ log_text' = << >>
    /\ UNCHANGED << procs, running_tools, output_threads, log_queue >>
    /\ UNCHANGED closing
    /\ UNCHANGED splitter_vars
    /\ UNCHANGED combiner_vars

launch_any == \E tool \in Tools : launch_tool(tool, MaxProcs)

process_exits_any == \E process \in 1..Len(procs) : process_exits(process)

read_line_any == \E process \in 1..Len(procs) : read_line(process)

read_end_any == \E process \in 1..Len(procs) : read_end(process)

read_error_any == \E process \in 1..Len(procs) : read_error(process)

(* ---------------------- launcher: closing the tools -------------------- *)

\* The items of running_tools whose process.poll() is None, in the order
\* of the dict.
running_items(items, processes) ==
    SelectSeq(items, LAMBDA item : still_running(processes[item.value]))

\* The processes of a list of (tool_name, process, pid).
pids(items) == { items[k].value : k \in 1..Len(items) }

\* The processes after a signal was sent to each process of a set.
signalled(processes, set, signal) ==
    [p \in DOMAIN processes |->
        IF p \in set
        THEN [processes[p] EXCEPT !.signals = Append(@, signal)]
        ELSE processes[p]]

\* The processes after process.kill() on each process of a set.
killed(processes, set) ==
    [p \in DOMAIN processes |->
        IF p \in set
        THEN [processes[p] EXCEPT !.signals = Append(@, "kill"),
                                  !.returncode = << -9 >>]
        ELSE processes[p]]

RECURSIVE log_each(_, _, _)
\* The queue after one message was logged for each item of a list.
log_each(queue, items, text) ==
    IF items = << >> THEN queue
    ELSE log_each(append_log(queue,
                      text \o " " \o Head(items).key
                           \o " (PID " \o ToString(Head(items).value) \o ")",
                      Head(items).key, FALSE),
                  Tail(items), text)

\* No handler that closes tools is waiting in root.update().
no_closing == [stage |-> "idle", by |-> "none", processes |-> << >>]

\* close_all_tools up to its root.update(): collect the tracked processes
\* that still run; return at once when there is none; otherwise send
\* terminate to each of them and wait.
close_all_tools_begin(by) ==
    LET processes_to_kill == running_items(running_tools, procs)
    IN  IF processes_to_kill = << >>
        THEN UNCHANGED launcher_vars
        ELSE /\ procs' = signalled(procs, pids(processes_to_kill), "terminate")
             /\ log_queue' = log_each(log_queue, processes_to_kill,
                                      "Terminating")
             /\ closing' = [stage |-> "terminated", by |-> by,
                            processes |-> processes_to_kill]
             /\ UNCHANGED << running_tools, output_threads, log_text >>

\* close_all_tools killing at once, without asking the processes to end.
close_all_tools_kills_first ==
    /\ launcher_running
    /\ closing.stage = "idle"
    /\ LET processes_to_kill == running_items(running_tools, procs)
       IN  IF processes_to_kill = << >>
           THEN UNCHANGED launcher_vars
           ELSE /\ procs' = killed(procs, pids(processes_to_kill))
                /\ log_queue' = log_each(log_queue, processes_to_kill,
                                         "Force killed")
                /\ closing' = [stage |-> "terminated", by |-> "button",
                               processes |-> processes_to_kill]
                /\ UNCHANGED << running_tools, output_threads, log_text >>
    /\ UNCHANGED splitter_vars
    /\ UNCHANGED combiner_vars

\* The Close All button.
close_all_tools ==
    /\ launcher_running
    /\ closing.stage = "idle"
    /\ close_all_tools_begin("button")
    /\ UNCHANGED splitter_vars
    /\ UNCHANGED combiner_vars

\* close_all_tools after its root.update(): kill the collected processes
\* that still run (process.kill(), the branch taken outside Windows),
\* clear both dicts and return; to on_close when it was the caller.
close_all_tools_resume ==
    /\ launcher_running
    /\ closing.stage = "terminated"
    /\ LET alive == running_items(closing.processes, procs)
       IN  /\ procs' = killed(procs, pids(alive))
           /\ log_queue' = log_each(log_queue, alive, "Force killed")
    /\ running_tools' = << >>
    /\ output_threads' = << >>
    /\ closing' = IF closing.by = "on_close"
                  THEN [closing EXCEPT !.stage = "closed"]
                  ELSE no_closing
    /\ UNCHANGED << log_text, pc >>
    /\ UNCHANGED << total_pages, split_points, split_names, split_display,
                    result, window, prompt >>
    /\ UNCHANGED run_vars
    /\ UNCHANGED history_vars
    /\ UNCHANGED popup
    /\ UNCHANGED combiner_vars

\* close_all_tools, called by on_close, raises out of its root.update():
\* on_close catches it and quits and destroys the window.
close_all_tools_raises ==
    /\ launcher_running
    /\ closing.stage = "terminated"
    /\ closing.by = "on_close"
    /\ pc' = "launcher_closed"
    /\ closing' = [closing EXCEPT !.stage = "raised"]
    /\ UNCHANGED << procs, running_tools, output_threads, log_queue,
                    log_text >>
    /\ UNCHANGED << total_pages, split_points, split_names, split_display,
                    result, window, prompt >>
    /\ UNCHANGED run_vars
    /\ UNCHANGED history_vars
    /\ UNCHANGED popup
    /\ UNCHANGED combiner_vars

\* on_close destroying the window whatever the answer.
on_close_ignores_cancel(response) ==
    /\ launcher_running
    /\ closing.stage = "idle"
    /\ IF running_items(running_tools, procs) # << >> /\ response = "yes"
       THEN /\ close_all_tools_begin("on_close")
            /\ pc' = pc
       ELSE /\ pc' = "launcher_closed"
            /\ UNCHANGED launcher_vars
    /\ UNCHANGED << total_pages, split_points, split_names, split_display,
                    result, window, prompt >>
    /\ UNCHANGED run_vars
    /\ UNCHANGED history_vars
    /\ UNCHANGED popup
    /\ UNCHANGED combiner_vars

\* The window's close button and the Exit button, up to the first wait:
\* with no tracked process running, quit and destroy the window; otherwise
\* ask. Cancel returns, No quits and destroys the window, Yes calls
\* close_all_tools.
on_close(response) ==
    /\ launcher_running
    /\ closing.stage = "idle"
    /\ IF running_items(running_tools, procs) = << >>
       THEN /\ pc' = "launcher_closed"
            /\ UNCHANGED launcher_vars
       ELSE CASE response = "cancel" ->
                   /\ pc' = pc
                   /\ UNCHANGED launcher_vars
              [] response = "no" ->
                   /\ pc' = "launcher_closed"
                   /\ UNCHANGED launcher_vars
              [] response = "yes" ->
                   /\ close_all_tools_begin("on_close")
                   /\ pc' = pc
    /\ UNCHANGED << total_pages, split_points, split_names, split_display,
                    result, window, prompt >>
    /\ UNCHANGED run_vars
    /\ UNCHANGED history_vars
    /\ UNCHANGED popup
    /\ UNCHANGED combiner_vars

\* on_close after close_all_tools has returned and root.update() was run:
\* kill the processes of its own list that still run, then quit and
\* destroy the window.
on_close_resume ==
    /\ launcher_running
    /\ closing.stage = "closed"
    /\ procs' = killed(procs, pids(running_items(closing.processes, procs)))
    /\ pc' = "launcher_closed"
    /\ closing' = [closing EXCEPT !.stage = "done"]
    /\ UNCHANGED << running_tools, output_threads, log_queue, log_text >>
    /\ UNCHANGED << total_pages, split_points, split_names, split_display,
                    result, window, prompt >>
    /\ UNCHANGED run_vars
    /\ UNCHANGED history_vars
    /\ UNCHANGED popup
    /\ UNCHANGED combiner_vars

\* askyesnocancel: True, False, None
Responses == {"yes", "no", "cancel"}

on_close_any == \E response \in Responses : on_close(response)

launch_tracked_any == \E tool \in Tools : launch_tool(tool, MaxTracked)

(* ------------------------------ PDF combiner --------------------------- *)

\* The files the user can pick or drop.
Paths == {"a.pdf", "b.pdf", "x.pdf"}

\* len(fitz.open(file_path)): a.pdf and b.pdf have two pages each, and
\* x.pdf cannot be opened.
page_count(file_path) ==
    CASE file_path = "a.pdf" -> << 2 >>
      [] file_path = "b.pdf" -> << 2 >>
      [] OTHER -> << >>

\* The values of preview_size_var the model uses.
PreviewSizes == {"big", "small"}

RECURSIVE Seqs(_, _)
\* The lists of 1..n different elements of a set, as a file dialog or a
\* drop gives them.
Seqs(set, n) ==
    IF n = 0 THEN {}
    ELSE { << x >> : x \in set }
         \cup UNION { { Append(s, x) :
                          x \in set \ { s[k] : k \in 1..Len(s) } } :
                      s \in Seqs(set, n - 1) }

\* The combiner accepts an event: no message box is up.
combiner_running == pc = "combiner"

\* The page_data dict load_pdf_thumbnails builds for a page, with the
\* state of its two widgets: the text of selection_label, whether it is
\* packed, and whether the thumbnail was destroyed.
new_page_data(file_index, page_index, file_path) ==
    [file_index |-> file_index, page_index |-> page_index,
     file_path |-> file_path, selected |-> FALSE, label |-> "",
     shown |-> FALSE, destroyed |-> FALSE]

\* The page_data dicts of one file, in page order.
file_page_data(file_index, file_path, total) ==
    [k \in 1..total |-> new_page_data(file_index, k - 1, file_path)]

RECURSIVE load_pdf_thumbnails(_, _, _)
\* load_pdf_thumbnails from the file at position k of pdf_files on: each
\* file that opens adds its pages to all_pages and one list of them to
\* pages_by_file; a file that does not open adds nothing.
load_pdf_thumbnails(lists, pdf_path_list, k) ==
    IF k > Len(pdf_path_list) THEN lists
    ELSE LET count == page_count(pdf_path_list[k])
         IN  IF count = << >>
             THEN load_pdf_thumbnails(lists, pdf_path_list, k + 1)
             ELSE LET first == Len(lists.all_pages)
                  IN  load_pdf_thumbnails(
                          [all_pages |-> lists.all_pages
                               \o file_page_data(k - 1, pdf_path_list[k],
                                                 count[1]),
                           pages_by_file |-> Append(lists.pages_by_file,
                               [j \in 1..count[1] |-> first + j])],
                          pdf_path_list, k + 1)

\* File dialog or drop: the lists are emptied, the thumbnails destroyed and
\* the files loaded.
load_files_from_list(file_paths) ==
    /\ combiner_running
    /\ file_paths # << >>
    /\ pdf_files' = file_paths
    /\ selected_pages' = << >>
    /\ LET loaded == load_pdf_thumbnails(
                         [all_pages |-> << >>, pages_by_file |-> << >>],
                         file_paths, 1)
       IN  /\ all_pages' = loaded.all_pages
           /\ pages_by_file' = loaded.pages_by_file
    /\ UNCHANGED << current_preview_size, pdf_writer, pc >>
    /\ UNCHANGED << total_pages, split_points, split_names, split_display,
                    result, window, prompt >>
    /\ UNCHANGED run_vars
    /\ UNCHANGED history_vars
    /\ UNCHANGED popup
    /\ UNCHANGED launcher_vars

\* Every thumbnail in the scrollable frame is destroyed.
destroy_thumbnails(pages) ==
    [k \in 1..Len(pages) |-> [pages[k] EXCEPT !.destroyed = TRUE]]

\* A preview size radio button: with another size and files loaded, the
\* thumbnails are destroyed and load_pdf_thumbnails runs again, on the
\* lists as they are.
change_preview_size(new_size) ==
    /\ combiner_running
    /\ new_size # current_preview_size
    /\ pdf_files # << >>
    /\ Len(all_pages) <= MaxAllPages
    /\ current_preview_size' = new_size
    /\ LET loaded == load_pdf_thumbnails(
                         [all_pages |-> destroy_thumbnails(all_pages),
                          pages_by_file |-> pages_by_file],
                         pdf_files, 1)
       IN  /\ all_pages' = loaded.all_pages
           /\ pages_by_file' = loaded.pages_by_file
    /\ UNCHANGED << pdf_files, selected_pages, pdf_writer, pc >>
    /\ UNCHANGED << total_pages, split_points, split_names, split_display,
                    result, window, prompt >>
    /\ UNCHANGED run_vars
    /\ UNCHANGED history_vars
    /\ UNCHANGED popup
    /\ UNCHANGED launcher_vars

\* [p for p in selected_pages if p != page_data]
without(selection, page) == SelectSeq(selection, LAMBDA p : p # page)

RECURSIVE renumber_selected_pages(_, _, _)
\* _renumber_selected_pages from position k on: each label gets its
\* position; the loop ends where a label was destroyed (TclError).
renumber_selected_pages(pages, selection, k) ==
    IF k > Len(selection) THEN pages
    ELSE IF pages[selection[k]].destroyed THEN pages
    ELSE renumber_selected_pages(
             [pages EXCEPT ![selection[k]].label = ToString(k)],
             selection, k + 1)

\* The select branch of toggle_page_selection and _select_page: flag,
\* number on the label, label packed, page appended; on a destroyed label
\* the flag is set and TclError is raised.
select_page(state, page) ==
    IF state.raised \/ state.all_pages[page].selected THEN state
    ELSE IF state.all_pages[page].destroyed
    THEN [state EXCEPT !.all_pages[page].selected = TRUE, !.raised = TRUE]
    ELSE [state EXCEPT
            !.all_pages[page].selected = TRUE,
            !.all_pages[page].label =
                ToString(Len(state.selected_pages) + 1),
            !.all_pages[page].shown = TRUE,
            !.selected_pages = Append(@, page)]

\* A thumbnail is clicked: a selected page is unselected, taken out of
\* selected_pages and the rest renumbered; another page is selected.
toggle_page_selection(page) ==
    /\ combiner_running
    /\ ~ all_pages[page].destroyed
    /\ IF all_pages[page].selected
       THEN /\ selected_pages' = without(selected_pages, page)
            /\ all_pages' = renumber_selected_pages(
                                [all_pages EXCEPT ![page].selected = FALSE,
                                                  ![page].shown = FALSE],
                                without(selected_pages, page), 1)
       ELSE LET state == select_page([all_pages |-> all_pages,
                                      selected_pages |-> selected_pages,
                                      raised |-> FALSE], page)
            IN  /\ all_pages' = state.all_pages
                /\ selected_pages' = state.selected_pages
    /\ UNCHANGED << pdf_files, pages_by_file, current_preview_size,
                    pdf_writer, pc >>
    /\ UNCHANGED << total_pages, split_points, split_names, split_display,
                    result, window, prompt >>
    /\ UNCHANGED run_vars
    /\ UNCHANGED history_vars
    /\ UNCHANGED popup
    /\ UNCHANGED launcher_vars

RECURSIVE unselect_all(_, _)
\* The loop of clear_selection from position k on: flag off, label
\* unpacked; on a destroyed label the flag is off and TclError is raised.
unselect_all(state, k) ==
    IF k > Len(state.selected_pages) THEN state
    ELSE LET page == state.selected_pages[k]
             off == [state EXCEPT !.all_pages[page].selected = FALSE]
         IN  IF state.all_pages[page].destroyed
             THEN [off EXCEPT !.raised = TRUE]
             ELSE unselect_all([off EXCEPT !.all_pages[page].shown = FALSE],
                               k + 1)

\* clear_selection on the lists: selected_pages is emptied when the loop
\* has come to its end.
cleared(pages, selection) ==
    LET state == unselect_all([all_pages |-> pages,
                               selected_pages |-> selection,
                               raised |-> FALSE], 1)
    IN  IF state.raised THEN state
        ELSE [state EXCEPT !.selected_pages = << >>]

\* The Clear Selection button.
clear_selection ==
    /\ combiner_running
    /\ LET state == cleared(all_pages, selected_pages)
       IN  /\ all_pages' = state.all_pages
           /\ selected_pages' = state.selected_pages
    /\ UNCHANGED << pdf_files, pages_by_file, current_preview_size,
                    pdf_writer, pc >>
    /\ UNCHANGED << total_pages, split_points, split_names, split_display,
                    result, window, prompt >>
    /\ UNCHANGED run_vars
    /\ UNCHANGED history_vars
    /\ UNCHANGED popup
    /\ UNCHANGED launcher_vars

RECURSIVE max_pages(_)
\* max(len(file_pages) for file_pages in lists)
max_pages(lists) ==
    IF lists = << >> THEN 0
    ELSE LET rest == max_pages(Tail(lists))
         IN  IF Len(Head(lists)) > rest THEN Len(Head(lists)) ELSE rest

RECURSIVE page_of_each_file(_, _, _)
\* The pages with number page_num of the files from position f on.
page_of_each_file(lists, page_num, f) ==
    IF f > Len(lists) THEN << >>
    ELSE (IF page_num <= Len(lists[f]) THEN << lists[f][page_num] >>
          ELSE << >>)
         \o page_of_each_file(lists, page_num, f + 1)

RECURSIVE alternate(_, _)
\* The pages of the files taken in turn, from page number page_num on.
alternate(lists, page_num) ==
    IF page_num > max_pages(lists) THEN << >>
    ELSE page_of_each_file(lists, page_num, 1)
         \o alternate(lists, page_num + 1)

RECURSIVE forward_and_reverse(_, _, _)
\* Page i of the first file, then page i from the end of the second.
forward_and_reverse(file1_pages, file2_pages, i) ==
    IF i > Len(file1_pages) \/ i > Len(file2_pages) THEN << >>
    ELSE << file1_pages[i], file2_pages[Len(file2_pages) + 1 - i] >>
         \o forward_and_reverse(file1_pages, file2_pages, i + 1)

RECURSIVE select_pages(_, _)
\* _select_page on each page of a list, until one raises.
select_pages(state, pages) ==
    IF pages = << >> THEN state
    ELSE select_pages(select_page(state, Head(pages)), Tail(pages))

\* The two auto-select buttons, which the last load has enabled for two
\* files or more: with fewer than two lists in pages_by_file nothing
\* happens; otherwise the selection is cleared and the pages are selected
\* in the order of the pattern.
auto_select(order) ==
    /\ combiner_running
    /\ Len(pdf_files) >= 2
    /\ Len(pages_by_file) >= 2
    /\ LET state == select_pages(cleared(all_pages, selected_pages), order)
       IN  /\ all_pages' = state.all_pages
           /\ selected_pages' = state.selected_pages
    /\ UNCHANGED << pdf_files, pages_by_file, current_preview_size,
                    pdf_writer, pc >>
    /\ UNCHANGED << total_pages, split_points, split_names, split_display,
                    result, window, prompt >>
    /\ UNCHANGED run_vars
    /\ UNCHANGED history_vars
    /\ UNCHANGED popup
    /\ UNCHANGED launcher_vars

auto_select_alternate == auto_select(alternate(pages_by_file, 1))

auto_select_reverse ==
    /\ Len(pages_by_file) >= 2
    /\ auto_select(forward_and_reverse(pages_by_file[1], pages_by_file[2], 1)
                \o alternate(SubSeq(pages_by_file, 3, Len(pages_by_file)), 1))

\* What pdf_writer holds after the loop of save_combined_pdf: for each
\* entry of selected_pages, in order, the page page_index of file_path.
written_pages(pages, selection) ==
    [k \in 1..Len(selection) |->
        [file_path |-> pages[selection[k]].file_path,
         page_index |-> pages[selection[k]].page_index]]

\* The Save button with a file name chosen: the writer gets the selected
\* pages, the file is written and the success message is shown. Without a
\* selection or a file name nothing happens.
save_combined_pdf ==
    /\ combiner_running
    /\ selected_pages # << >>
    /\ pdf_writer' = written_pages(all_pages, selected_pages)
    /\ pc' = "combiner_saved"
    /\ UNCHANGED << pdf_files, all_pages, selected_pages, pages_by_file,
                    current_preview_size >>
    /\ UNCHANGED << total_pages, split_points, split_names, split_display,
                    result, window, prompt >>
    /\ UNCHANGED run_vars
    /\ UNCHANGED history_vars
    /\ UNCHANGED popup
    /\ UNCHANGED launcher_vars

\* The success message is dismissed and save_combined_pdf returns.
save_returns ==
    /\ pc = "combiner_saved"
    /\ pc' = "combiner"
    /\ pdf_writer' = << >>
    /\ UNCHANGED << pdf_files, all_pages, selected_pages, pages_by_file,
                    current_preview_size >>
    /\ UNCHANGED << total_pages, split_points, split_names, split_display,
                    result, window, prompt >>
    /\ UNCHANGED run_vars
    /\ UNCHANGED history_vars
    /\ UNCHANGED popup
    /\ UNCHANGED launcher_vars

load_any == \E file_paths \in Seqs(Paths, MaxFiles) :
                load_files_from_list(file_paths)

change_preview_size_any ==
    \E new_size \in PreviewSizes : change_preview_size(new_size)

toggle_page_any ==
    \E page \in 1..Len(all_pages) : toggle_page_selection(page)

(* ----------------------------- specifications -------------------------- *)

no_run ==
    /\ splits = << >>
    /\ output_folder = ""
    /\ idx = 0
    /\ files = << >>
    /\ documents_meta = << >>
    /\ error = << >>
    /\ success = << >>
    /\ report = None

no_history ==
    /\ last_op = [op |-> "init", page |-> 0, again |-> FALSE]
    /\ before = [split_points |-> << 1 >>, split_names |-> << >>]
    /\ popup = << >>

\* PDFToolLauncher.__init__: nothing started, nothing logged.
no_launcher ==
    /\ procs = << >>
    /\ running_tools = << >>
    /\ output_threads = << >>
    /\ closing = no_closing
    /\ log_queue = << >>
    /\ log_text = << >>

\* PDFCombinerApp.__init__: no files, no pages, the preview size 'big'.
no_combiner ==
    /\ pdf_files = << >>
    /\ all_pages = << >>
    /\ selected_pages = << >>
    /\ pages_by_file = << >>
    /\ current_preview_size = "big"
    /\ pdf_writer = << >>

\* A dialog constructed on a source of 1..MaxPlanPages pages.
InitPlan ==
    /\ total_pages \in 1..MaxPlanPages
    /\ split_points = << 1 >>
    /\ split_names = << >>
    /\ split_display = update_split_display(<< 1 >>, << >>, total_pages)
    /\ result = None
    /\ window = "open"
    /\ prompt = -1
    /\ pc = "dialog"
    /\ no_run
    /\ no_history
    /\ no_launcher
    /\ no_combiner

NextPlan ==
    \/ toggle_any
    \/ clear_all_splits
    \/ do_split
    \/ cancel_dialog
    \/ close_window

SpecPlan == InitPlan /\ [][NextPlan]_vars

\* A dialog constructed on a source of 1..MaxPages pages.
InitView ==
    /\ total_pages \in 1..MaxPages
    /\ split_points = << 1 >>
    /\ split_names = << >>
    /\ split_display = update_split_display(<< 1 >>, << >>, total_pages)
    /\ result = None
    /\ window = "open"
    /\ prompt = -1
    /\ pc = "dialog"
    /\ no_run
    /\ no_history
    /\ no_launcher
    /\ no_combiner

\* The split buttons of the grid and the full view popup.
NextView ==
    \/ toggle_any
    \/ show_full_size_image_any
    \/ go_previous
    \/ go_next
    \/ split_after_current_page
    \/ popup_destroy

SpecView == InitView /\ [][NextView]_vars

\* The application with a source PDF of 0..MaxPages pages chosen.
Init ==
    /\ total_pages \in 0..MaxPages
    /\ split_points = << 1 >>
    /\ split_names = << >>
    /\ split_display = << >>
    /\ result = None
    /\ window = "none"
    /\ prompt = -1
    /\ pc = "idle"
    /\ no_run
    /\ no_history
    /\ no_launcher
    /\ no_combiner

Next ==
    \/ process_file
    \/ toggle_any
    \/ clear_all_splits
    \/ edit_names
    \/ edit_names_prompt
    \/ do_split
    \/ cancel_dialog
    \/ close_window
    \/ process_file_result
    \/ split_pdf_file_open
    \/ split_pdf_file_document
    \/ split_pdf_file_summary
    \/ process_file_done
    \/ select_file
    \/ mainloop_exit

Spec == Init /\ [][Next]_vars

\* Names a direct caller of split_pdf_file may pass for a document.
CallNames == {"", "part", "a.PDF"}

CallFolders == {"", "out", "/out"}

CallTuples(pages) ==
    { << start, end, name >> :
        start \in 1..pages, end \in 1..(pages + 1), name \in CallNames }

RECURSIVE seqs_upto(_, _)
\* The sequences over S of length at most n.
seqs_upto(S, n) ==
    IF n = 0 THEN { << >> }
    ELSE LET shorter == seqs_upto(S, n - 1)
         IN  shorter \cup { Append(q, x) : q \in shorter, x \in S }

\* split_pdf_file called directly on a source of 1..MaxCallPages pages.
InitCall ==
    /\ total_pages \in 1..MaxCallPages
    /\ split_points = << 1 >>
    /\ split_names = << >>
    /\ split_display = << >>
    /\ result = None
    /\ window = "none"
    /\ prompt = -1
    /\ pc = "split_open"
    /\ splits \in seqs_upto(CallTuples(total_pages), MaxCallDocs)
    /\ output_folder \in CallFolders
    /\ idx = 0
    /\ files = << >>
    /\ documents_meta = << >>
    /\ error = << >>
    /\ success = << >>
    /\ report = None
    /\ no_history
    /\ no_launcher
    /\ no_combiner

\* The application, or split_pdf_file called directly.
SpecCall == (Init \/ InitCall) /\ [][Next]_vars

\* The launcher after construction; no splitter dialog is involved.
InitLauncher ==
    /\ total_pages = 0
    /\ split_points = << 1 >>
    /\ split_names = << >>
    /\ split_display = << >>
    /\ result = None
    /\ window = "none"
    /\ prompt = -1
    /\ pc = "launcher"
    /\ no_run
    /\ no_history
    /\ no_launcher
    /\ no_combiner

NextLauncher ==
    \/ launch_any
    \/ process_exits_any
    \/ read_line_any
    \/ read_end_any
    \/ read_error_any
    \/ process_log_queue
    \/ clear_log

SpecLauncher == InitLauncher /\ [][NextLauncher]_vars

\* The tool buttons, the processes, Close All and the closing of the
\* launcher window.
NextTools ==
    \/ launch_tracked_any
    \/ process_exits_any
    \/ close_all_tools
    \/ close_all_tools_resume
    \/ close_all_tools_raises
    \/ on_close_any
    \/ on_close_resume

SpecTools == InitLauncher /\ [][NextTools]_vars

\* A handler that waits in root.update() goes on when the wait is over.
SpecToolsFair ==
    /\ SpecTools
    /\ WF_vars(close_all_tools_resume \/ close_all_tools_raises)
    /\ WF_vars(on_close_resume)

\* The combiner after construction.
InitCombiner ==
    /\ total_pages = 0
    /\ split_points = << 1 >>
    /\ split_names = << >>
    /\ split_display = << >>
    /\ result = None
    /\ window = "none"
    /\ prompt = -1
    /\ pc = "combiner"
    /\ no_run
    /\ no_history
    /\ no_launcher
    /\ no_combiner

\* The handlers of the combiner.
NextCombiner ==
    \/ load_any
    \/ change_preview_size_any
    \/ toggle_page_any
    \/ clear_selection
    \/ auto_select_alternate
    \/ auto_select_reverse
    \/ save_combined_pdf
    \/ save_returns

SpecCombiner == InitCombiner /\ [][NextCombiner]_vars

(* ------------------------------- properties ---------------------------- *)

elements(lst) == { lst[k] : k \in 1..Len(lst) }

strictly_increasing(lst) ==
    \A j, k \in 1..Len(lst) : j < k => lst[j] < lst[k]

\* C1: after any sequence of toggle_split_point(page), page in
\* 1..total_pages-1, and clear_all_splits calls, split_points starts with 1,
\* has no duplicates, is strictly increasing and lies in 1..total_pages.
C1_SplitPointsWellFormed ==
    /\ Len(split_points) >= 1
    /\ split_points[1] = 1
    /\ strictly_increasing(split_points)
    /\ Cardinality(elements(split_points)) = Len(split_points)
    /\ \A k \in 1..Len(split_points) : split_points[k] \in 1..total_pages

\* A split point below the largest one has just been inserted by a toggle.
C1_Witness ==
    /\ last_op.op = "toggle"
    /\ Len(split_points) = 4
    /\ Len(before.split_points) = 3
    /\ last_op.page + 1 < before.split_points[3]

\* The (start, end) pairs in ranges partition the pages 1..pages.
partitions(ranges, pages) ==
    /\ \A k \in 1..Len(ranges) : ranges[k][1] <= ranges[k][2]
    /\ \A k \in 1..(Len(ranges) - 1) : ranges[k + 1][1] = ranges[k][2] + 1
    /\ \A k \in 1..Len(ranges) : 1 <= ranges[k][1] /\ ranges[k][2] <= pages
    /\ \A page \in 1..pages :
         Cardinality({ k \in 1..Len(ranges) :
                         ranges[k][1] <= page /\ page <= ranges[k][2] }) = 1

\* C2: in every reachable plan state the derived ranges (as computed from
\* split_points, as listed in the preview, and as put into the finalized
\* plan) are contiguous, non-overlapping, non-empty and cover every page of
\* 1..total_pages exactly once.
C2_RangesPartitionPages ==
    /\ partitions(derive_ranges(split_points, total_pages), total_pages)
    /\ partitions([k \in 1..Len(split_display) |->
                      << split_display[k].start, split_display[k].end_page >>],
                  total_pages)
    /\ (result # None /\ result.split) =>
          partitions([k \in 1..Len(result.splits) |->
                         << result.splits[k][1], result.splits[k][2] >>],
                     total_pages)

\* A plan of four documents, the last of one page, has been confirmed.
C2_Witness ==
    /\ result # None
    /\ result.split
    /\ Len(result.splits) = 4
    /\ result.splits[4][1] = total_pages
    /\ total_pages >= 6

\* C3: for split points p0..pn and T pages the derived ranges are exactly
\* (p_i, p_{i+1} - 1) for i < n followed by (p_n, T); with no toggles the
\* single range (1, T); and toggle 3, toggle 6 on 10 pages gives
\* (1,3), (4,6), (7,10).
C3_RangesFormula ==
    LET ranges == derive_ranges(split_points, total_pages)
        n == Len(split_points)
    IN  /\ Len(ranges) = n
        /\ \A k \in 1..(n - 1) :
             ranges[k] = << split_points[k], split_points[k + 1] - 1 >>
        /\ ranges[n] = << split_points[n], total_pages >>
        /\ window = "open" =>
             /\ Len(split_display) = n
             /\ \A k \in 1..n : /\ split_display[k].start = ranges[k][1]
                                /\ split_display[k].end_page = ranges[k][2]
        /\ last_op.op \in {"init", "clear"} =>
             ranges = << << 1, total_pages >> >>
        /\ (/\ total_pages = 10
            /\ last_op.op = "toggle" /\ last_op.page = 3
            /\ before.split_points = << 1 >>) =>
             split_points = << 1, 4 >>
        /\ (/\ total_pages = 10
            /\ last_op.op = "toggle" /\ last_op.page = 6
            /\ before.split_points = << 1, 4 >>) =>
             /\ split_points = << 1, 4, 7 >>
             /\ ranges = << << 1, 3 >>, << 4, 6 >>, << 7, 10 >> >>

\* toggle 6 has run on the 10-page plan whose only split is after page 3.
C3_Witness ==
    /\ total_pages = 10
    /\ last_op.op = "toggle" /\ last_op.page = 6
    /\ before.split_points = << 1, 4 >>
    /\ split_points = << 1, 4, 7 >>

\* C4: toggle_split_point(page), page in 1..total_pages-1, removes page + 1
\* when it is a split point and inserts it otherwise, leaves every other
\* split point in place and keeps the list sorted ascending; from {1,4,7}
\* toggle 3 yields {1,7}.
C4_ToggleEffect ==
    last_op.op = "toggle" =>
        LET point == last_op.page + 1
            was == elements(before.split_points)
        IN  /\ point \in was => elements(split_points) = was \ {point}
            /\ point \notin was => elements(split_points) = was \cup {point}
            /\ strictly_increasing(split_points)
            /\ (before.split_points = << 1, 4, 7 >> /\ last_op.page = 3) =>
                 split_points = << 1, 7 >>

\* toggle 3 has run on a 10-page plan with split points 1, 4, 7.
C4_Witness ==
    /\ total_pages = 10
    /\ last_op.op = "toggle" /\ last_op.page = 3
    /\ before.split_points = << 1, 4, 7 >>
    /\ split_points = << 1, 7 >>

\* C5: toggle_split_point(p) called twice in succession returns split_points
\* and split_names to what they were before the first call.
C5_DoubleToggleRestores ==
    [][\A page \in 1..(total_pages - 1) :
          (/\ last_op.op = "toggle" /\ last_op.page = page
           /\ toggle_split_point(page)) =>
             /\ split_points' = before.split_points
             /\ split_names' = before.split_names]_vars

\* The same split button was pressed twice in a row on a plan with names.
C5_Witness ==
    /\ last_op.op = "toggle"
    /\ last_op.again
    /\ split_names # << >>
    /\ Len(split_points) >= 2

\* C6: clear_all_splits resets split_points to [1] and split_names to the
\* empty mapping, whatever the plan was.
C6_ClearResets ==
    last_op.op = "clear" =>
        /\ split_points = << 1 >>
        /\ split_names = << >>
        /\ Len(split_display) = 1
        /\ split_display[1].start = 1
        /\ split_display[1].end_page = total_pages

\* clear_all_splits has run on a plan with three documents and names.
C6_Witness ==
    /\ last_op.op = "clear"
    /\ Len(before.split_points) = 3
    /\ before.split_names # << >>

\* name ends with ".pdf", compared without regard to case
has_pdf_suffix(name) ==
    /\ Len(name) >= 4
    /\ lower(SubSeq(name, Len(name) - 3, Len(name))) = ".pdf"

\* The last component of a path.
RECURSIVE basename(_)
basename(path) ==
    IF \E k \in 1..Len(path) : SubSeq(path, k, k) = "/"
    THEN basename(Tail(path))
    ELSE path

\* C7: whatever edit_names stored, every filename do_split puts into the
\* finalized plan and every filename split_pdf_file uses for an output
\* document ends with ".pdf" (case-insensitive).
C7_NamesEndWithPdf ==
    /\ (result # None /\ result.split) =>
          \A k \in 1..Len(result.splits) : has_pdf_suffix(result.splits[k][3])
    /\ \A k \in 1..Len(documents_meta) :
          has_pdf_suffix(documents_meta[k].filename)
    /\ \A path \in DOMAIN files :
          files[path].kind = "pdf" => has_pdf_suffix(basename(path))

\* A document whose stored name has no suffix has been written.
C7_Witness ==
    /\ result # None
    /\ result.split
    /\ 0 \in DOMAIN split_names
    /\ split_names[0] = "Intro"
    /\ Len(documents_meta) >= 1
    /\ documents_meta[1].filename = "Intro.pdf"

\* C8: at confirmation document i (zero-based) gets the name stored for i
\* if there is one, else "{stem}_Part{i+1}.pdf"; ".pdf" is appended only to
\* a name that does not already end in it (case-insensitive): "Intro"
\* gives "Intro.pdf", "Rest.pdf" stays "Rest.pdf".
C8_ResolvedNames ==
    (result # None /\ result.split) =>
        /\ Len(result.splits) = Len(split_points)
        /\ \A k \in 1..Len(result.splits) :
             LET i == k - 1
                 name == result.splits[k][3]
             IN  /\ i \notin DOMAIN split_names =>
                      name = pdf_basename \o "_Part" \o ToString(i + 1) \o ".pdf"
                 /\ (i \in DOMAIN split_names /\ has_pdf_suffix(split_names[i])) =>
                      name = split_names[i]
                 /\ (i \in DOMAIN split_names /\ ~ has_pdf_suffix(split_names[i])) =>
                      name = split_names[i] \o ".pdf"
                 /\ (i \in DOMAIN split_names /\ split_names[i] = "Intro") =>
                      name = "Intro.pdf"
                 /\ (i \in DOMAIN split_names /\ split_names[i] = "Rest.pdf") =>
                      name = "Rest.pdf"

\* A plan of two documents named "Intro" and "Rest.pdf" has been confirmed.
C8_Witness ==
    /\ result # None
    /\ result.split
    /\ Len(result.splits) = 2
    /\ DOMAIN split_names = {0, 1}
    /\ split_names[0] = "Intro"
    /\ split_names[1] = "Rest.pdf"
    /\ result.splits[1][3] = "Intro.pdf"
    /\ result.splits[2][3] = "Rest.pdf"

output_failed ==
    /\ pc \in {"split_returned", "returned"}
    /\ error # << >>
    /\ error[1].at \in {"open_output", "write_output"}

written_numbers == { documents_meta[k].document_number :
                        k \in 1..Len(documents_meta) }

split_reported ==
    /\ pc = "returned"
    /\ report # None
    /\ report.outcome \in {"success", "error"}

document_path(k) ==
    path_join(output_dir(output_folder), documents_meta[k].filename)

\* The pages start..end in ascending order.
page_run(start, end) == [j \in 1..(end - start + 1) |-> start + j - 1]

\* C11: when writing an output document fails during split_pdf_file, every
\* output file that was completely written before the failure is still on
\* disk, complete and with the pages of its document; nothing written
\* earlier is deleted or rolled back.
C11_WrittenFilesRemain ==
    output_failed =>
        \A k \in 1..Len(documents_meta) :
            /\ document_path(k) \in DOMAIN files
            /\ files[document_path(k)].kind = "pdf"
            /\ files[document_path(k)].complete
            /\ files[document_path(k)].pages =
                   writer_pages(documents_meta[k].start_page,
                                documents_meta[k].end_page, total_pages)

document_written ==
    /\ pc = "split_loop"
    /\ idx >= 1
    /\ Len(documents_meta) = idx

\* C13: for a tuple (start, end, filename) with 1 <= start <= end <=
\* total_pages the document written holds the source pages start..end in
\* ascending order, each once, and no other page.
C13_DocumentHoldsItsPages ==
    document_written =>
        LET start == splits[idx][1]
            end == splits[idx][2]
        IN  (1 <= start /\ start <= end /\ end <= total_pages) =>
              /\ document_path(idx) \in DOMAIN files
              /\ files[document_path(idx)].complete
              /\ files[document_path(idx)].pages = page_run(start, end)

\* The tuple (2, 3) of a three-page source has been written.
C13_Witness ==
    /\ document_written
    /\ total_pages = 3
    /\ splits[idx][1] = 2
    /\ splits[idx][2] = 3
    /\ files[document_path(idx)].pages = << 2, 3 >>

\* The directory part of a path.
dirname(path) == SubSeq(path, 1, Len(path) - Len(basename(path)) - 1)

\* C14: split_pdf_file writes into the "_splitted" subfolder of the source's
\* directory when no output folder is given, into the given folder itself
\* when it is absolute, and into the given folder taken relative to the
\* source's directory when it is relative.
C14_OutputDirectory ==
    \A path \in DOMAIN files :
        dirname(path) =
            IF output_folder = "" THEN "/docs/_splitted"
            ELSE IF Head(output_folder) = "/" THEN output_folder
            ELSE "/docs/" \o output_folder

\* A document has been written with the relative output folder "out".
C14_Witness ==
    /\ output_folder = "out"
    /\ Len(documents_meta) = 1
    /\ document_path(1) \in DOMAIN files
    /\ dirname(document_path(1)) = "/docs/out"

\* The filename of document i (zero-based) as the plan resolves it.
plan_name(i) ==
    LET stored == IF i \in DOMAIN split_names THEN split_names[i]
                  ELSE "doc_Part" \o ToString(i + 1) \o ".pdf"
    IN  IF has_pdf_suffix(stored) THEN stored ELSE stored \o ".pdf"

\* The (start, end, filename) tuples of the plan as it stands.
plan_tuples ==
    [k \in 1..Len(split_points) |->
        << split_points[k],
           IF k < Len(split_points) THEN split_points[k + 1] - 1
           ELSE total_pages,
           plan_name(k - 1) >>]

\* C15: once the dialog's result is set (do_split or cancel_dialog) no
\* toggle, clear or rename changes the plan of that dialog and the result is
\* never replaced; the tuples of a confirmed result are the ranges and
\* resolved names of the plan at confirmation, and they are what
\* split_pdf_file is called with.
C15_ResultIsFinal ==
    [][/\ (result # None /\ pc' # "idle") =>
             /\ result' = result
             /\ split_points' = split_points
             /\ split_names' = split_names
       /\ (result' # None /\ result'.split) =>
             /\ result'.splits = plan_tuples'
             /\ pc' \in {"split_open", "split_loop", "split_returned"} =>
                  /\ splits' = result'.splits
                  /\ output_folder' = result'.output_folder]_vars

\* A confirmed plan of three documents with a custom name has been split.
C15_Witness ==
    /\ pc = "split_returned"
    /\ result # None
    /\ result.split
    /\ Len(result.splits) = 3
    /\ split_names # << >>
    /\ splits = result.splits

\* C16: nothing is written while a plan is edited or after it is cancelled:
\* split_pdf_file starts only from a destroyed dialog whose result has
\* split = TRUE, files change only inside that call, and the call is made
\* at most once for a dialog.
C16_SplitOnlyAfterConfirm ==
    [][/\ (pc' = "split_open" /\ pc # "split_open") =>
             /\ pc = "dialog"
             /\ window = "destroyed"
             /\ result # None
             /\ result.split
       /\ (files' # files /\ pc' # "idle") =>
             /\ pc = "split_loop"
             /\ window = "destroyed"
             /\ result # None
             /\ result.split
       /\ pc \in {"split_loop", "split_returned", "returned", "closed"} =>
             pc' \notin {"dialog", "split_open"}]_vars

\* A plan with a split point was edited and then cancelled.
C16_Witness ==
    /\ pc = "returned"
    /\ Len(split_points) >= 2
    /\ result = [split |-> FALSE, message |-> "Cancelled by user."]
    /\ files = << >>

C18_NextFileAfterFailedSplit ==
    /\ error # << >> => /\ success = << FALSE >>
                        /\ pc # "crashed"
    /\ (pc = "returned" /\ report # None /\ report.outcome = "error") =>
          ENABLED select_file

\* C19: the answer to the prompt for document index i changes at most the
\* split_names entry of the zero-based index i of the current ranges:
\* split_points, total_pages and the names of all other indices stay, and a
\* cancelled prompt leaves split_names as it is.
C19_PromptWritesOneName ==
    [][prompt >= 0 =>
          /\ prompt < Len(split_points)
          /\ total_pages' = total_pages
          /\ split_points' = split_points
          /\ \A k \in (DOMAIN split_names \cup DOMAIN split_names') \ {prompt} :
               /\ k \in DOMAIN split_names
               /\ k \in DOMAIN split_names'
               /\ split_names'[k] = split_names[k]
          /\ split_names' # split_names => prompt \in DOMAIN split_names'
          /\ store_answer(split_names, prompt, [none |-> TRUE, text |-> ""])
                 = split_names]_vars

\* The prompt for index 1 stored a name while index 0 kept its own.
C19_Witness ==
    /\ last_op.op = "prompt"
    /\ last_op.page = 1
    /\ 0 \in DOMAIN before.split_names
    /\ 1 \notin DOMAIN before.split_names
    /\ 1 \in DOMAIN split_names
    /\ split_names[0] = before.split_names[0]

\* A step of one of the output reader threads.
reader_step ==
    \E process \in 1..Len(procs) :
        read_line(process) \/ read_end(process) \/ read_error(process)

\* The queue has at most gained items at its end.
queue_extended ==
    /\ Len(log_queue') >= Len(log_queue)
    /\ SubSeq(log_queue', 1, Len(log_queue)) = log_queue

\* C20 as stated: a reader thread changes nothing but the log queue, to
\* which it adds, and the log widget changes only in process_log_queue.
C20_OnlyQueueProcessorWritesLog ==
    [][/\ reader_step =>
             /\ queue_extended
             /\ UNCHANGED << log_text, running_tools, output_threads >>
       /\ log_text' # log_text => process_log_queue]_vars

\* C20 as the code has it: a reader thread changes nothing but the log
\* queue, to which it adds, and the log widget changes only in handlers of
\* the main thread: process_log_queue adds the queued items to it and
\* clear_log empties it.
C20_OnlyMainThreadWritesLog ==
    [][/\ reader_step =>
             /\ queue_extended
             /\ UNCHANGED << log_text, running_tools, output_threads >>
       /\ log_text' # log_text =>
             \/ process_log_queue /\ log_text' = append_all(log_text, log_queue)
             \/ clear_log /\ log_text' = << >>]_vars

\* A line read by a reader thread has reached the log widget while the
\* thread has queued its end-of-process message.
C20_Witness ==
    /\ \E k \in 1..Len(log_text) : log_text[k].text = "ok"
    /\ \E k \in 1..Len(log_queue) :
          log_queue[k].text = "Process exited with code: 1"

\* C22: confirming a plan whose only split point is 1 gives the result
\* {split: False, message: 'No splits defined. PDF remains unchanged.'}
\* without a splits list, and nothing is written for it.
C22_NoSplitsNoOutput ==
    (last_op.op = "do_split" /\ before.split_points = << 1 >>) =>
        /\ result = [split |-> FALSE,
                     message |-> "No splits defined. PDF remains unchanged."]
        /\ DOMAIN result = {"split", "message"}
        /\ files = << >>
        /\ splits = << >>
        /\ pc \in {"dialog", "returned", "closed"}

\* process_file has returned after Split was pressed on an unsplit plan.
C22_Witness ==
    /\ last_op.op = "do_split"
    /\ before.split_points = << 1 >>
    /\ pc = "returned"
    /\ report # None
    /\ report.message = "No splits defined. PDF remains unchanged."

\* C26: for every document of a confirmed plan with more than one split
\* point, the filename the preview list shows for the document is the
\* filename do_split has put into the finalized plan for it.
C26_PreviewShowsFinalNames ==
    (result # None /\ result.split) =>
        /\ Len(split_display) = Len(result.splits)
        /\ \A k \in 1..Len(result.splits) :
             split_display[k].name = result.splits[k][3]

\* C27: after any sequence of toggle, clear and edit_names every key of
\* split_names is a zero-based index of the current ranges.
C27_NameKeysAreDocuments ==
    \A key \in DOMAIN split_names : 0 <= key /\ key < Len(split_points)

\* The output files that are documents.
documents_on_disk == { path \in DOMAIN files : files[path].kind = "pdf" }

\* C28: the filenames of a finalized plan are pairwise distinct, so no
\* output document overwrites another one of the batch, and after a
\* successful split there are as many documents on disk as tuples.
C28_FilenamesDistinct ==
    (result # None /\ result.split) =>
        /\ \A j, k \in 1..Len(result.splits) :
             j # k => result.splits[j][3] # result.splits[k][3]
        /\ success = << TRUE >> => Cardinality(documents_on_disk) = Len(splits)

\* C21: every toggle the user interface issues has after_page in
\* 1..total_pages - 1: the grid has a split button for those pages only,
\* and the popup's split action calls the callback only while the page
\* shown is below total_pages.
C21_TogglePrecondition ==
    /\ split_buttons(total_pages) = 1..(total_pages - 1)
    /\ last_op.op = "toggle" =>
          /\ 1 <= last_op.page
          /\ last_op.page <= total_pages - 1
    /\ \A k \in 1..Len(split_points) :
          1 <= split_points[k] /\ split_points[k] <= total_pages
    /\ popup # << >> =>
          (ENABLED split_after_current_page =>
               popup[1].current_page < total_pages)

\* The popup shows the last page of three after its split action was used
\* on page 2.
C21_Witness ==
    /\ total_pages = 3
    /\ popup # << >>
    /\ popup[1].current_page = 3
    /\ popup[1].available = 3
    /\ last_op.op = "toggle"
    /\ last_op.page = 2

\* A tracked tool process is running.
tools_running == running_items(running_tools, procs) # << >>

\* The signal was sent to the process.
was_sent(process, signal) ==
    \E k \in 1..Len(process.signals) : process.signals[k] = signal

\* C23: on_close with running tools asks; Cancel leaves the launcher open
\* and kills nothing, No exits and kills nothing, Yes sends terminate to
\* every tracked running tool before the launcher exits; with no running
\* tool the launcher exits at once. Once Yes was answered the window is
\* destroyed in the end, also when closing the tools raises.
C23_OnClose ==
    /\ [][/\ (on_close("cancel") /\ tools_running) => UNCHANGED vars
          /\ (on_close("no") /\ tools_running) =>
                 /\ pc' = "launcher_closed"
                 /\ UNCHANGED launcher_vars
          /\ (on_close_any /\ ~ tools_running) =>
                 /\ pc' = "launcher_closed"
                 /\ UNCHANGED launcher_vars
          /\ (on_close("yes") /\ tools_running) =>
                 /\ pc' = "launcher"
                 /\ \A p \in pids(running_items(running_tools, procs)) :
                       /\ ~ was_sent(procs[p], "terminate")
                            => was_sent(procs'[p], "terminate")
                       /\ p \in pids(closing'.processes)
          /\ (pc' = "launcher_closed" /\ closing'.by = "on_close") =>
                 \A p \in pids(closing'.processes) :
                     was_sent(procs'[p], "terminate")]_vars
    /\ (closing.by = "on_close") ~> (pc = "launcher_closed")

\* Yes was answered, closing the tools has raised, and the window is
\* destroyed while a tool that was sent terminate still runs.
C23_Witness ==
    /\ pc = "launcher_closed"
    /\ closing.stage = "raised"
    /\ \E p \in pids(closing.processes) :
          still_running(procs[p]) /\ procs[p].signals = << "terminate" >>

\* C24: close_all_tools sends terminate to every tracked process that
\* still runs and kills nothing in that phase; after the wait it kills
\* those of them still alive and leaves running_tools and output_threads
\* empty; with no tracked process running it changes nothing; no process
\* is killed that was not sent terminate before.
C24_TerminateThenKill ==
    /\ [][/\ (close_all_tools /\ ~ tools_running) => UNCHANGED vars
          /\ (close_all_tools /\ tools_running) =>
                 /\ \A p \in 1..Len(procs) :
                       procs'[p].signals =
                           IF p \in pids(running_items(running_tools, procs))
                           THEN Append(procs[p].signals, "terminate")
                           ELSE procs[p].signals
                 /\ UNCHANGED << running_tools, output_threads >>
          /\ close_all_tools_resume =>
                 /\ running_tools' = << >>
                 /\ output_threads' = << >>
                 /\ \A p \in 1..Len(procs) :
                       IF p \in pids(closing.processes)
                          /\ still_running(procs[p])
                       THEN /\ was_sent(procs[p], "terminate")
                            /\ procs'[p].signals =
                                   Append(procs[p].signals, "kill")
                            /\ ~ still_running(procs'[p])
                       ELSE procs'[p] = procs[p]]_vars
    /\ [](\A p \in 1..Len(procs) : \A k \in 1..Len(procs[p].signals) :
             procs[p].signals[k] = "kill" =>
                 \E j \in 1..(k - 1) : procs[p].signals[j] = "terminate")

\* Close All has returned: of two tools, one had ended after terminate and
\* the other was killed, and nothing is tracked any more.
C24_Witness ==
    /\ closing = no_closing
    /\ running_tools = << >>
    /\ output_threads = << >>
    /\ \E p, q \in 1..Len(procs) :
          /\ procs[p].signals = << "terminate", "kill" >>
          /\ procs[q].signals = << "terminate" >>
          /\ ~ still_running(procs[q])

\* C29 as stated: every running tool process the launcher has started is
\* tracked in running_tools, and once close_all_tools has returned no tool
\* process runs.
C29_EveryRunningToolTracked ==
    /\ \A p \in 1..Len(procs) :
          still_running(procs[p]) => p \in pids(running_tools)
    /\ closing.stage \in {"closed", "done"} =>
          \A p \in 1..Len(procs) : ~ still_running(procs[p])

\* The positions in all_pages that selected_pages lists.
selection == { selected_pages[k] : k \in 1..Len(selected_pages) }

\* The place of a page in a list that holds it.
place(pages, page) == CHOOSE k \in 1..Len(pages) : pages[k] = page

\* C25 as stated: in the combiner, after any sequence of toggles, clears
\* and auto-selects, selected_pages lists each selected page once, a page's
\* flag is set exactly when it is listed, the k-th listed page shows the
\* number k and no other page shows a number, save_combined_pdf writes the
\* listed pages in the order of the list, and a toggle keeps the order of
\* the pages that stay selected and puts a newly selected page last.
C25_SelectionOrder ==
    /\ [](/\ \A j, k \in 1..Len(selected_pages) :
                j # k => selected_pages[j] # selected_pages[k]
          /\ \A page \in 1..Len(all_pages) :
                /\ all_pages[page].selected <=> page \in selection
                /\ all_pages[page].shown <=> page \in selection
          /\ \A k \in 1..Len(selected_pages) :
                all_pages[selected_pages[k]].label = ToString(k)
          /\ pc = "combiner_saved" =>
                /\ Len(pdf_writer) = Len(selected_pages)
                /\ \A k \in 1..Len(selected_pages) :
                      /\ pdf_writer[k].file_path =
                             all_pages[selected_pages[k]].file_path
                      /\ pdf_writer[k].page_index =
                             all_pages[selected_pages[k]].page_index)
    /\ [][toggle_page_any =>
             \A j, k \in 1..Len(selected_pages') :
                 j < k =>
                    /\ selected_pages'[j] \in selection
                    /\ selected_pages'[k] \in selection =>
                          place(selected_pages, selected_pages'[j])
                              < place(selected_pages, selected_pages'[k])]_vars

\* The files of pdf_files that open.
loaded_files == { k \in 1..Len(pdf_files) : page_count(pdf_files[k]) # << >> }

\* C30 as stated: in the combiner, after any sequence of loads and preview
\* size changes, pages_by_file has one entry per loaded file, all_pages
\* holds each page of the loaded files once, and every entry of
\* selected_pages is a page of all_pages whose thumbnail exists.
C30_ListsMatchLoadedFiles ==
    /\ Len(pages_by_file) = Cardinality(loaded_files)
    /\ \A k \in loaded_files :
          \A index \in 0..(page_count(pdf_files[k])[1] - 1) :
              Cardinality({ page \in 1..Len(all_pages) :
                              /\ all_pages[page].file_index = k - 1
                              /\ all_pages[page].page_index = index }) = 1
    /\ \A k \in 1..Len(selected_pages) :
          /\ selected_pages[k] \in 1..Len(all_pages)
          /\ ~ all_pages[selected_pages[k]].destroyed

====
